---- MODULE Spec2Model ----
(***************************************************************************)
(* A model of the meta-learner orchestration core of metalearners:         *)
(*   src/metalearners/metalearner.py  (helpers and the MetaLearner base)   *)
(*   src/metalearners/utils.py        (metalearner_factory)                *)
(*                                                                         *)
(* Python values are references into a heap of objects, so that "the very  *)
(* same mapping" (identity) and "a new mapping" (allocation) are different *)
(* outcomes.  An object is a dict (isdict, with items: key -> reference)   *)
(* or an opaque value (a class object, None, ...).                         *)
(***************************************************************************)
EXTENDS Integers, Sequences, FiniteSets, TLC

VARIABLES
    heap,        \* Seq of objects; a reference is an index into it
    estimators,  \* Seq of CrossFitEstimator instances; an instance id is an index
    pc,          \* "start" | "constructed" | "failed"
    args,        \* the arguments MetaLearner.__init__ was called with
    err,         \* the exception __init__ raised, NoError if none
    ml,          \* the attributes of the constructed MetaLearner
    call,        \* the last operation called, with its arguments
    ret,         \* what the last operation returned or raised
    nops,        \* number of operations called so far
    trace        \* the calls of metalearner_factory so far, with their results

vars == <<heap, estimators, pc, args, err, ml, call, ret, nops, trace>>

----------------------------------------------------------------------------
(* Bounds of the model *)

\* number of helper calls explored in a row (SpecHelpers)
HelperCalls == 1

\* number of metalearner_factory calls explored in a row (SpecFactory)
FactoryCalls == 2

\* n_variants ranges over 0..MaxVariants, model_ord over -1..MaxVariants
MaxVariants == 3

\* number of fit_* and predict_* calls on an instance built from any
\* combination of constructor arguments (Spec)
WideOps == 1

\* number of fit_*, predict_* and _nuisance_tensors calls on an instance
\* built from well-formed constructor arguments (SpecRuntime)
MaxOps == 2

\* longest treatment or outcome vector (SpecValidate)
MaxLen == 4

----------------------------------------------------------------------------
(* Objects *)

PROPENSITY_MODEL == "propensity_model"

EmptyMap == [k \in {} |-> 0]

\* an opaque, non-dict object (None, a class, a list of feature names)
Opaque == [isdict |-> FALSE, items |-> EmptyMap]

\* a dict object with the given items
Dict(items) == [isdict |-> TRUE, items |-> items]

\* isinstance(argument, dict)
IsDict(h, ref) == h[ref].isdict

\* set(argument.keys())
Keys(h, ref) == DOMAIN h[ref].items

\* the objects a caller holds before any call, by name; the reference of an
\* object is its place in the heap
CallerObjects ==
    <<"None", "F", "G", "outcome_dict", "propensity_outcome_dict",
      "treatment_dict", "all_kinds_dict", "params">>

Ref(name) == CHOOSE i \in 1..Len(CallerObjects) : CallerObjects[i] = name

\* None, and two opaque values (model classes, or lists of feature names)
None == Ref("None")
F == Ref("F")
G == Ref("G")

BaseHeap == <<Opaque, Opaque, Opaque>>

Returned(v) == [kind |-> "return", value |-> v]

\* an exception; the message is the sequence of the pieces of its text
Raised(type, message) == [kind |-> "raise", type |-> type, message |-> message]

\* the result of an operation that may allocate: the reference it returns and
\* the heap after it
Result(ref, h) == [ref |-> ref, heap |-> h]

----------------------------------------------------------------------------
(* metalearner.py: module-level helpers *)

\* the key-set comparison dropped: any dict is returned as it is
InitializeModelDictAnyDict(h, argument, expected_names) ==
    IF IsDict(h, argument)
    THEN Result(argument, h)
    ELSE Result(Len(h) + 1,
                Append(h, Dict([name \in expected_names |-> argument])))

_initialize_model_dict(h, argument, expected_names) ==
    IF IsDict(h, argument) /\ Keys(h, argument) = expected_names
    THEN Result(argument, h)
    ELSE Result(Len(h) + 1,
                Append(h, Dict([name \in expected_names |-> argument])))

\* d | {PROPENSITY_MODEL: propensity_specs}: a new dict, right operand wins
DictUnionPropensity(items, propensity_specs) ==
    [k \in (DOMAIN items) \cup {PROPENSITY_MODEL} |->
        IF k = PROPENSITY_MODEL THEN propensity_specs ELSE items[k]]

\* the propensity branch dropped: the propensity kind is normalized like
\* every other kind, from nuisance_specs
CombineWithoutPropensity(h, propensity_specs, nuisance_specs, nuisance_model_names) ==
    _initialize_model_dict(h, nuisance_specs, nuisance_model_names)

_combine_propensity_and_nuisance_specs(h, propensity_specs, nuisance_specs, nuisance_model_names) ==
    IF PROPENSITY_MODEL \in nuisance_model_names
    THEN LET non_propensity_nuisance_model_names ==
                 nuisance_model_names \ {PROPENSITY_MODEL}
             non_propensity_model_dict ==
                 _initialize_model_dict(h, nuisance_specs,
                                        non_propensity_nuisance_model_names)
             h1 == non_propensity_model_dict.heap
         IN  Result(Len(h1) + 1,
                    Append(h1, Dict(DictUnionPropensity(
                        h1[non_propensity_model_dict.ref].items,
                        propensity_specs))))
    ELSE _initialize_model_dict(h, nuisance_specs, nuisance_model_names)

----------------------------------------------------------------------------
(* Specification of the helpers: they are applied to every argument in a   *)
(* heap holding None, two opaque values and one caller-made dict.          *)

\* model kind names the helpers are exercised with
HelperNames == {PROPENSITY_MODEL, "outcome_model", "treatment_model"}

\* the dicts a caller may pass: any key set, each value F or G
CallerDicts ==
    UNION {[K -> {F, G}] : K \in SUBSET HelperNames}

NoCall == [op |-> "none"]
NoRet == [kind |-> "none"]
NoError == [type |-> "none", site |-> "none"]
NoArgs == [given |-> FALSE]
NoML == [cls |-> "none"]

InitHelpers ==
    /\ \E d \in CallerDicts : heap = Append(BaseHeap, Dict(d))
    /\ estimators = <<>>
    /\ pc = "start"
    /\ args = NoArgs
    /\ err = NoError
    /\ ml = NoML
    /\ call = NoCall
    /\ ret = NoRet
    /\ nops = 0
    /\ trace = <<>>

CallInitializeModelDict ==
    /\ nops < HelperCalls
    /\ \E argument \in 1..Len(heap), expected_names \in SUBSET HelperNames :
        LET r == _initialize_model_dict(heap, argument, expected_names)
        IN  /\ call' = [op |-> "_initialize_model_dict",
                        argument |-> argument,
                        expected_names |-> expected_names,
                        heap_before |-> heap]
            /\ ret' = [kind |-> "value", ref |-> r.ref]
            /\ heap' = r.heap
    /\ nops' = nops + 1
    /\ UNCHANGED <<estimators, pc, args, err, ml, trace>>

CallCombine ==
    /\ nops < HelperCalls
    /\ \E propensity_specs \in 1..Len(heap), nuisance_specs \in 1..Len(heap),
          nuisance_model_names \in SUBSET HelperNames :
        LET r == _combine_propensity_and_nuisance_specs(
                     heap, propensity_specs, nuisance_specs,
                     nuisance_model_names)
        IN  /\ call' = [op |-> "_combine_propensity_and_nuisance_specs",
                        propensity_specs |-> propensity_specs,
                        nuisance_specs |-> nuisance_specs,
                        nuisance_model_names |-> nuisance_model_names,
                        heap_before |-> heap]
            /\ ret' = [kind |-> "value", ref |-> r.ref]
            /\ heap' = r.heap
    /\ nops' = nops + 1
    /\ UNCHANGED <<estimators, pc, args, err, ml, trace>>

NextHelpers == CallInitializeModelDict \/ CallCombine

SpecHelpers == InitHelpers /\ [][NextHelpers]_vars

----------------------------------------------------------------------------
(* Claims about the helpers (SpecHelpers) *)

\* the input of the last call was a dict whose key set is `names`
WasDictOver(ref, names) ==
    /\ call.heap_before[ref].isdict
    /\ DOMAIN call.heap_before[ref].items = names

\* the last call returned a dict allocated by the call
ReturnedNewDict ==
    /\ ret.ref = Len(call.heap_before) + 1
    /\ ret.ref <= Len(heap)
    /\ heap[ret.ref].isdict

\* no object that existed before the last call was changed by it
InputsNotMutated ==
    /\ Len(heap) >= Len(call.heap_before)
    /\ \A i \in 1..Len(call.heap_before) : heap[i] = call.heap_before[i]

\* C5: _initialize_model_dict always returns (never raises) a dict whose key
\* set is exactly expected_names; a dict argument whose key set equals
\* expected_names is returned itself (same reference, nothing allocated);
\* any other argument, a dict with other keys included, is broadcast: a new
\* dict maps every expected name to the argument itself; empty
\* expected_names gives an empty dict; no existing object is mutated.
C5_Normalizer ==
    call.op = "_initialize_model_dict" =>
        /\ ret.kind = "value"
        /\ ret.ref \in 1..Len(heap)
        /\ heap[ret.ref].isdict
        /\ DOMAIN heap[ret.ref].items = call.expected_names
        /\ InputsNotMutated
        /\ IF WasDictOver(call.argument, call.expected_names)
           THEN ret.ref = call.argument /\ heap = call.heap_before
           ELSE /\ ReturnedNewDict
                /\ Len(heap) = Len(call.heap_before) + 1
                /\ \A name \in call.expected_names :
                       heap[ret.ref].items[name] = call.argument
        /\ (call.expected_names = {} => heap[ret.ref].items = EmptyMap)

\* a dict whose keys differ from the expected names was broadcast as a scalar
C5_Witness ==
    /\ call.op = "_initialize_model_dict"
    /\ call.heap_before[call.argument].isdict
    /\ DOMAIN call.heap_before[call.argument].items = {"outcome_model"}
    /\ call.expected_names = {"outcome_model", "treatment_model"}
    /\ heap[ret.ref].items["treatment_model"] = call.argument
    /\ ret.ref # call.argument

\* C6: _combine_propensity_and_nuisance_specs.  When the propensity name is
\* among the kind names, the result's key set is the kind names, the
\* propensity name maps to the propensity value given (None included,
\* whatever nuisance_specs holds) and every other name maps as the
\* normalizer maps it over the non-propensity names.  Otherwise the result
\* is the normalizer's on all kind names and the propensity value is unused.
C6_Merge ==
    call.op = "_combine_propensity_and_nuisance_specs" =>
        LET names == call.nuisance_model_names
            rest == names \ {PROPENSITY_MODEL}
            before == call.heap_before
        IN  /\ ret.kind = "value"
            /\ ret.ref \in 1..Len(heap)
            /\ heap[ret.ref].isdict
            /\ DOMAIN heap[ret.ref].items = names
            /\ InputsNotMutated
            /\ IF PROPENSITY_MODEL \in names
               THEN /\ heap[ret.ref].items[PROPENSITY_MODEL]
                          = call.propensity_specs
                    /\ \A name \in rest :
                          heap[ret.ref].items[name] =
                             IF WasDictOver(call.nuisance_specs, rest)
                             THEN before[call.nuisance_specs].items[name]
                             ELSE call.nuisance_specs
               ELSE IF WasDictOver(call.nuisance_specs, names)
                    THEN ret.ref = call.nuisance_specs /\ heap = before
                    ELSE /\ ReturnedNewDict
                         /\ \A name \in names :
                               heap[ret.ref].items[name] = call.nuisance_specs

\* nuisance_specs was a dict holding the propensity key, the propensity value
\* given was None, and the result maps the propensity name to None
C6_Witness ==
    /\ call.op = "_combine_propensity_and_nuisance_specs"
    /\ call.nuisance_model_names = {PROPENSITY_MODEL, "outcome_model"}
    /\ WasDictOver(call.nuisance_specs, {PROPENSITY_MODEL, "outcome_model"})
    /\ call.propensity_specs = None
    /\ heap[ret.ref].items[PROPENSITY_MODEL] = None
    /\ heap[ret.ref].items["outcome_model"] = call.nuisance_specs

----------------------------------------------------------------------------
(* metalearner.py: what a concrete variant declares (the abstract class    *)
(* methods).  The base class is exercised with four variants: a binary one *)
(* without propensity model, a binary one with propensity model, a         *)
(* multi-treatment one, and one that wrongly declares the propensity name  *)
(* as a treatment model.                                                   *)

OUTCOME_MODEL == "outcome_model"
TREATMENT_MODEL == "treatment_model"

Variants == {"BinaryLearner", "PropensityLearner", "MultiLearner",
             "MisdeclaredLearner"}

\* _ModelSpecifications: cardinality and predict_method are functions of the
\* instance, named here by what they compute
ModelSpecifications(cardinality, predict_method) ==
    [cardinality |-> cardinality, predict_method |-> predict_method]

nuisance_model_specifications(cls) ==
    CASE cls = "BinaryLearner" ->
           [k \in {OUTCOME_MODEL} |->
               ModelSpecifications("n_variants", "by_is_classification")]
      [] cls = "PropensityLearner" ->
           [k \in {PROPENSITY_MODEL, OUTCOME_MODEL} |->
               IF k = PROPENSITY_MODEL
               THEN ModelSpecifications("one", "predict_proba")
               ELSE ModelSpecifications("one", "by_is_classification")]
      [] cls = "MultiLearner" ->
           [k \in {PROPENSITY_MODEL, OUTCOME_MODEL} |->
               IF k = PROPENSITY_MODEL
               THEN ModelSpecifications("one", "predict_proba")
               ELSE ModelSpecifications("n_variants", "by_is_classification")]
      [] cls = "MisdeclaredLearner" ->
           [k \in {OUTCOME_MODEL} |->
               ModelSpecifications("one", "predict")]

treatment_model_specifications(cls) ==
    CASE cls = "BinaryLearner" -> EmptyMap
      [] cls = "PropensityLearner" ->
           [k \in {TREATMENT_MODEL} |-> ModelSpecifications("one", "predict")]
      [] cls = "MultiLearner" ->
           [k \in {TREATMENT_MODEL} |->
               ModelSpecifications("n_variants_minus_one", "predict")]
      [] cls = "MisdeclaredLearner" ->
           [k \in {PROPENSITY_MODEL} |-> ModelSpecifications("one", "predict")]

_supports_multi_treatment(cls) == cls = "MultiLearner"

_supports_multi_class(cls) == cls \in {"MultiLearner", "MisdeclaredLearner"}

\* specifications[name]["cardinality"](self)
CardinalityOf(specification, self) ==
    CASE specification.cardinality = "one" -> 1
      [] specification.cardinality = "n_variants" -> self.n_variants
      [] specification.cardinality = "n_variants_minus_one" ->
           self.n_variants - 1

\* specifications[name]["predict_method"](self)
PredictMethodOf(specification, self) ==
    CASE specification.predict_method = "predict" -> "predict"
      [] specification.predict_method = "predict_proba" -> "predict_proba"
      [] specification.predict_method = "by_is_classification" ->
           IF self.is_classification THEN "predict_proba" ELSE "predict"

----------------------------------------------------------------------------
(* metalearner.py: MetaLearner, validation *)

Error(type, site) == [type |-> type, site |-> site]

\* a number as Python sees it: an int, or a float of the same value
IntValue(n) == [isint |-> TRUE, value |-> n]
FloatValue(n) == [isint |-> FALSE, value |-> n]

\* the test of multi-treatment support dropped: any n_variants >= 2 passes
CheckNVariantsWithoutSupportTest(cls, n_variants) ==
    IF ~n_variants.isint \/ n_variants.value < 2
    THEN Error("ValueError", "n_variants")
    ELSE NoError

_check_n_variants(cls, n_variants) ==
    IF ~n_variants.isint \/ n_variants.value < 2
    THEN Error("ValueError", "n_variants")
    ELSE IF n_variants.value > 2 /\ ~_supports_multi_treatment(cls)
    THEN Error("NotImplementedError", "n_variants")
    ELSE NoError

\* np.unique(w), as the set of the values of the vector
Unique(v) == {v[i] : i \in 1..Len(v)}

\* set(range(n))
Range(n) == 0..(n - 1)

\* only the number of distinct values is compared
CheckTreatmentCountOnly(self, w) ==
    IF Cardinality(Unique(w)) # self.n_variants
    THEN Error("ValueError", "treatment_count")
    ELSE NoError

_check_treatment(self, w) ==
    IF Cardinality(Unique(w)) # self.n_variants
    THEN Error("ValueError", "treatment_count")
    ELSE IF Unique(w) # Range(self.n_variants)
    THEN Error("ValueError", "treatment_encoding")
    ELSE NoError

\* the is_classification condition dropped
CheckOutcomeIgnoringIsClassification(self, y) ==
    IF ~_supports_multi_class(self.cls) /\ Cardinality(Unique(y)) > 2
    THEN Error("ValueError", "multiclass")
    ELSE NoError

_check_outcome(self, y) ==
    IF /\ self.is_classification
       /\ ~_supports_multi_class(self.cls)
       /\ Cardinality(Unique(y)) > 2
    THEN Error("ValueError", "multiclass")
    ELSE NoError

\* validate_number_positive(n_folds, "n_folds"), of metalearners._utils
validate_number_positive(value, name) ==
    IF value <= 0 THEN Error("ValueError", name) ELSE NoError

----------------------------------------------------------------------------
(* metalearner.py: MetaLearner.__init__ *)

\* a CrossFitEstimator as __init__ makes it; fits counts the calls of its
\* fit, fit_X is the X_filtered its last fit was given
CrossFitEstimator(n_folds, estimator_factory, estimator_params, random_state) ==
    [n_folds |-> n_folds, estimator_factory |-> estimator_factory,
     estimator_params |-> estimator_params, random_state |-> random_state,
     fits |-> 0, fit_X |-> [all |-> FALSE, features |-> None]]

\* the kinds in the order their estimators are allocated
KindOrder == <<PROPENSITY_MODEL, OUTCOME_MODEL, TREATMENT_MODEL>>

\* len(range(n))
RangeLen(n) == IF n < 0 THEN 0 ELSE n

RECURSIVE AllocatedBefore(_, _, _)
\* the number of estimators allocated for the first n kinds of KindOrder
AllocatedBefore(specifications, self, n) ==
    IF n = 0 THEN 0
    ELSE AllocatedBefore(specifications, self, n - 1)
         + (IF KindOrder[n] \in DOMAIN specifications
            THEN RangeLen(CardinalityOf(specifications[KindOrder[n]], self))
            ELSE 0)

KindPosition(name) == CHOOSE i \in 1..Len(KindOrder) : KindOrder[i] = name

\* one instance shared by every ordinal, as [CrossFitEstimator(...)] * n makes
SharedEstimatorIds(base, n) == [i \in 1..n |-> base + 1]

\* [CrossFitEstimator(...) for _ in range(n)]: n new instances
NewEstimatorIds(base, n) == [i \in 1..n |-> base + i]

\* one estimator per kind, whatever its cardinality
OnePerKind(specifications, name, self) == 1

\* the length of the list __init__ builds for kind `name`
AllocatedFor(specifications, name, self) ==
    RangeLen(CardinalityOf(specifications[name], self))

\* the dict comprehension building _nuisance_models or _treatment_models:
\* the lists of instance ids by kind, and the new instances
AllocateModels(specifications, self, model_factory, model_params, base) ==
    LET total == AllocatedBefore(specifications, self, Len(KindOrder))
        first(name) ==
            AllocatedBefore(specifications, self, KindPosition(name) - 1)
        kindOf(j) ==
            CHOOSE name \in DOMAIN specifications :
                /\ first(name) < j
                /\ j <= AllocatedBefore(specifications, self,
                                        KindPosition(name))
    IN  [models |->
            [name \in DOMAIN specifications |->
                NewEstimatorIds(base + first(name),
                                AllocatedFor(specifications, name, self))],
         instances |->
            [j \in 1..total |->
                CrossFitEstimator(self.n_folds, model_factory[kindOf(j)],
                                  model_params[kindOf(j)],
                                  self.random_state)]]

\* the check for a missing propensity factory (lines 184-191) dropped
PropensityChecksWithoutMissingFactory(h, a) ==
    IF PROPENSITY_MODEL \in DOMAIN treatment_model_specifications(a.cls)
    THEN Error("ValueError", "treatment_model_specifications")
    ELSE IF /\ IsDict(h, a.nuisance_model_factory)
            /\ PROPENSITY_MODEL \in Keys(h, a.nuisance_model_factory)
    THEN Error("ValueError", "nuisance_model_factory")
    ELSE IF /\ IsDict(h, a.nuisance_model_params)
            /\ PROPENSITY_MODEL \in Keys(h, a.nuisance_model_params)
    THEN Error("ValueError", "nuisance_model_params")
    ELSE NoError

\* the four configuration checks that open __init__ (lines 164-191)
PropensityChecks(h, a) ==
    IF PROPENSITY_MODEL \in DOMAIN treatment_model_specifications(a.cls)
    THEN Error("ValueError", "treatment_model_specifications")
    ELSE IF /\ IsDict(h, a.nuisance_model_factory)
            /\ PROPENSITY_MODEL \in Keys(h, a.nuisance_model_factory)
    THEN Error("ValueError", "nuisance_model_factory")
    ELSE IF /\ IsDict(h, a.nuisance_model_params)
            /\ PROPENSITY_MODEL \in Keys(h, a.nuisance_model_params)
    THEN Error("ValueError", "nuisance_model_params")
    ELSE IF /\ PROPENSITY_MODEL \in DOMAIN nuisance_model_specifications(a.cls)
            /\ a.propensity_model_factory = None
    THEN Error("ValueError", "propensity_model_factory")
    ELSE NoError

\* `x = {}` when x is None: a new empty dict
EmptyDictIfNone(h, ref) ==
    IF ref = None
    THEN Result(Len(h) + 1, Append(h, Dict(EmptyMap)))
    ELSE Result(ref, h)

\* __init__ raised: no instance, nothing allocated is kept
InitRaised(h, es, error) ==
    [err |-> error, ml |-> NoML, heap |-> h, estimators |-> es]

\* the attributes assigned so far, with the heap after the assignments;
\* an attribute not assigned yet reads None
Unassigned(h) ==
    [heap |-> h, nuisance_model_factory |-> None,
     nuisance_model_params |-> None, treatment_model_factory |-> None,
     treatment_model_params |-> None, feature_set |-> None]

\* self.<attribute> = <the dict r refers to>
Assign(self, attribute, r) ==
    [self EXCEPT ![attribute] = r.ref, !.heap = r.heap]

NuisanceNames(cls) == DOMAIN nuisance_model_specifications(cls)
TreatmentNames(cls) == DOMAIN treatment_model_specifications(cls)

\* lines 197-201
AssignNuisanceModelFactory(a, self) ==
    Assign(self, "nuisance_model_factory",
           _combine_propensity_and_nuisance_specs(
               self.heap, a.propensity_model_factory,
               a.nuisance_model_factory, NuisanceNames(a.cls)))

\* lines 206-210, given both params arguments with None replaced by {}
CombineParams(a, nuisance_model_params, propensity_model_params) ==
    _combine_propensity_and_nuisance_specs(
        propensity_model_params.heap, propensity_model_params.ref,
        nuisance_model_params.ref, NuisanceNames(a.cls))

\* lines 204-210, given nuisance_model_params with None replaced by {}
CombineParamsAfterNuisanceDefault(a, nuisance_model_params) ==
    CombineParams(a, nuisance_model_params,
                  EmptyDictIfNone(nuisance_model_params.heap,
                                  a.propensity_model_params))

\* lines 202-210
AssignNuisanceModelParams(a, self) ==
    Assign(self, "nuisance_model_params",
           CombineParamsAfterNuisanceDefault(
               a, EmptyDictIfNone(self.heap, a.nuisance_model_params)))

\* lines 212-214
AssignTreatmentModelFactory(a, self) ==
    Assign(self, "treatment_model_factory",
           _initialize_model_dict(self.heap, a.treatment_model_factory,
                                  TreatmentNames(a.cls)))

\* lines 215-222, given treatment_model_params with None replaced by {}
NormalizeTreatmentParams(a, treatment_model_params) ==
    _initialize_model_dict(treatment_model_params.heap,
                           treatment_model_params.ref, TreatmentNames(a.cls))

\* lines 215-222
AssignTreatmentModelParams(a, self) ==
    Assign(self, "treatment_model_params",
           NormalizeTreatmentParams(
               a, EmptyDictIfNone(self.heap, a.treatment_model_params)))

\* the feature set normalized over the nuisance kind names only
AssignFeatureSetOverNuisanceNames(a, self) ==
    IF a.feature_set = None
    THEN self
    ELSE Assign(self, "feature_set",
                _initialize_model_dict(self.heap, a.feature_set,
                                       NuisanceNames(a.cls)))

\* lines 228-235
AssignFeatureSet(a, self) ==
    IF a.feature_set = None
    THEN self
    ELSE Assign(self, "feature_set",
                _initialize_model_dict(
                    self.heap, a.feature_set,
                    NuisanceNames(a.cls) \cup TreatmentNames(a.cls)))

\* the instance as the cardinality functions see it
SelfOf(a, self) ==
    [cls |-> a.cls,
     is_classification |-> a.is_classification,
     n_variants |-> a.n_variants.value,
     nuisance_model_factory |-> self.nuisance_model_factory,
     nuisance_model_params |-> self.nuisance_model_params,
     treatment_model_factory |-> self.treatment_model_factory,
     treatment_model_params |-> self.treatment_model_params,
     n_folds |-> a.n_folds,
     random_state |-> a.random_state,
     feature_set |-> self.feature_set]

\* the constructed instance, given the two allocations
Constructed(self, h, es, nuisance, treatment) ==
    [err |-> NoError,
     ml |-> [cls |-> self.cls,
             is_classification |-> self.is_classification,
             n_variants |-> self.n_variants,
             nuisance_model_factory |-> self.nuisance_model_factory,
             nuisance_model_params |-> self.nuisance_model_params,
             treatment_model_factory |-> self.treatment_model_factory,
             treatment_model_params |-> self.treatment_model_params,
             n_folds |-> self.n_folds,
             random_state |-> self.random_state,
             feature_set |-> self.feature_set,
             _nuisance_models |-> nuisance.models,
             _treatment_models |-> treatment.models],
     heap |-> h,
     estimators |-> es \o nuisance.instances \o treatment.instances]

\* lines 249-262, given _nuisance_models
AllocateTreatmentModels(self, h, es, nuisance) ==
    Constructed(
        self, h, es, nuisance,
        AllocateModels(treatment_model_specifications(self.cls), self,
                       h[self.treatment_model_factory].items,
                       h[self.treatment_model_params].items,
                       Len(es) + Len(nuisance.instances)))

\* lines 237-262
AllocateEstimators(self, h, es) ==
    AllocateTreatmentModels(
        self, h, es,
        AllocateModels(nuisance_model_specifications(self.cls), self,
                       h[self.nuisance_model_factory].items,
                       h[self.nuisance_model_params].items, Len(es)))

\* lines 224-262, given the attributes of lines 197-222
InitAfterNormalization(h, es, a, self) ==
    IF validate_number_positive(a.n_folds, "n_folds") # NoError
    THEN InitRaised(h, es, validate_number_positive(a.n_folds, "n_folds"))
    ELSE AllocateEstimators(SelfOf(a, AssignFeatureSet(a, self)),
                            AssignFeatureSet(a, self).heap, es)

\* lines 197-264, once the checks of lines 164-195 have passed
InitBody(h, es, a) ==
    InitAfterNormalization(
        h, es, a,
        AssignTreatmentModelParams(a,
            AssignTreatmentModelFactory(a,
                AssignNuisanceModelParams(a,
                    AssignNuisanceModelFactory(a, Unassigned(h))))))

\* MetaLearner.__init__ called on heap h with arguments a; _validate_params
\* and _validate_models are the base class's (they accept everything)
MetaLearnerInit(h, es, a) ==
    IF PropensityChecks(h, a) # NoError
    THEN InitRaised(h, es, PropensityChecks(h, a))
    ELSE IF _check_n_variants(a.cls, a.n_variants) # NoError
    THEN InitRaised(h, es, _check_n_variants(a.cls, a.n_variants))
    ELSE InitBody(h, es, a)

----------------------------------------------------------------------------
(* metalearner.py: MetaLearner, the runtime operations *)

\* list[i] as Python indexes a list: from the end when i is negative
ListGet(list, i) ==
    IF 0 <= i /\ i < Len(list) THEN Returned(list[i + 1])
    ELSE IF i < 0 /\ -Len(list) <= i THEN Returned(list[Len(list) + i + 1])
    ELSE Raised("IndexError", <<"list index out of range">>)

\* X[self.feature_set[model_kind]] if self.feature_set else X
XFiltered(self, h, model_kind) ==
    IF self.feature_set # None /\ Keys(h, self.feature_set) # {}
    THEN IF model_kind \in Keys(h, self.feature_set)
         THEN Returned([all |-> FALSE,
                        features |-> h[self.feature_set].items[model_kind]])
         ELSE Raised("KeyError", <<model_kind>>)
    ELSE Returned([all |-> TRUE, features |-> None])

\* CrossFitEstimator.fit, of metalearners.cross_fit_estimator
CrossFitFit(estimator, X) ==
    [estimator EXCEPT !.fits = @ + 1, !.fit_X = X]

\* CrossFitEstimator.predict and predict_proba
CrossFitPredict(id, estimator, predict_method, X, is_oos) ==
    IF estimator.fits = 0
    THEN Raised("NotFittedError", <<predict_method>>)
    ELSE Returned([estimator |-> id, predict_method |-> predict_method,
                   X |-> X, is_oos |-> is_oos])

\* CrossFitEstimator._n_outputs
NOutputs(estimator, predict_method) ==
    IF predict_method = "predict_proba" THEN 2 ELSE 1

\* an operation's outcome: what it returns or raises, and the estimators after
Outcome(r, es) == [ret |-> r, estimators |-> es]

\* models[model_kind][model_ord].fit(X_filtered, y); return self
FitIn(self, h, es, models, model_kind, model_ord) ==
    LET X_filtered == XFiltered(self, h, model_kind)
    IN  IF X_filtered.kind = "raise" THEN Outcome(X_filtered, es)
        ELSE IF model_kind \notin DOMAIN models
        THEN Outcome(Raised("KeyError", <<model_kind>>), es)
        ELSE LET id == ListGet(models[model_kind], model_ord)
             IN  IF id.kind = "raise" THEN Outcome(id, es)
                 ELSE Outcome(Returned("self"),
                              [es EXCEPT ![id.value] =
                                  CrossFitFit(@, X_filtered.value)])

fit_nuisance(self, h, es, model_kind, model_ord) ==
    FitIn(self, h, es, self._nuisance_models, model_kind, model_ord)

fit_treatment(self, h, es, model_kind, model_ord) ==
    FitIn(self, h, es, self._treatment_models, model_kind, model_ord)

predict_nuisance(self, h, es, model_kind, model_ord, is_oos) ==
    LET X_filtered == XFiltered(self, h, model_kind)
        specifications == nuisance_model_specifications(self.cls)
    IN  IF X_filtered.kind = "raise" THEN Outcome(X_filtered, es)
        ELSE IF model_kind \notin DOMAIN specifications
        THEN Outcome(Raised("KeyError", <<model_kind>>), es)
        ELSE IF model_kind \notin DOMAIN self._nuisance_models
        THEN Outcome(Raised("KeyError", <<model_kind>>), es)
        ELSE LET id == ListGet(self._nuisance_models[model_kind], model_ord)
             IN  IF id.kind = "raise" THEN Outcome(id, es)
                 ELSE Outcome(
                        CrossFitPredict(
                            id.value, es[id.value],
                            PredictMethodOf(specifications[model_kind], self),
                            X_filtered.value, is_oos),
                        es)

predict_treatment(self, h, es, model_kind, model_ord, is_oos) ==
    LET X_filtered == XFiltered(self, h, model_kind)
    IN  IF X_filtered.kind = "raise" THEN Outcome(X_filtered, es)
        ELSE IF model_kind \notin DOMAIN self._treatment_models
        THEN Outcome(Raised("KeyError", <<model_kind>>), es)
        ELSE LET id == ListGet(self._treatment_models[model_kind], model_ord)
             IN  IF id.kind = "raise" THEN Outcome(id, es)
                 ELSE Outcome(
                        CrossFitPredict(id.value, es[id.value], "predict",
                                        X_filtered.value, is_oos),
                        es)

\* the shape of one result array: (n_obs, n_outputs) or (n_obs,)
Dimension(n_obs, n_outputs) ==
    IF n_outputs > 1 THEN <<n_obs, n_outputs>> ELSE <<n_obs>>

_nuisance_tensors(self, es, n_obs) ==
    LET specifications == nuisance_model_specifications(self.cls)
        n(model_kind) ==
            RangeLen(CardinalityOf(specifications[model_kind], self))
    IN  IF \E model_kind \in DOMAIN specifications :
              \/ model_kind \notin DOMAIN self._nuisance_models
              \/ n(model_kind) > Len(self._nuisance_models[model_kind])
        THEN Outcome(Raised("IndexError", <<"list index out of range">>), es)
        ELSE Outcome(
               Returned(
                 [model_kind \in DOMAIN specifications |->
                    [i \in 1..n(model_kind) |->
                       Dimension(
                         n_obs,
                         NOutputs(
                           es[self._nuisance_models[model_kind][i]],
                           PredictMethodOf(specifications[model_kind],
                                           self)))]]),
               es)

----------------------------------------------------------------------------
(* Specifications of the MetaLearner.  A caller holds None, two opaque     *)
(* values, per-kind dicts and a parameter dict, constructs one instance    *)
(* and then calls its operations.                                          *)

\* the caller's objects, in the order of CallerObjects
CallerHeap ==
    BaseHeap \o
    << Dict([k \in {OUTCOME_MODEL} |-> F]),
       Dict([k \in {PROPENSITY_MODEL, OUTCOME_MODEL} |-> F]),
       Dict([k \in {TREATMENT_MODEL} |-> G]),
       Dict([k \in {PROPENSITY_MODEL, OUTCOME_MODEL, TREATMENT_MODEL} |->
                IF k = TREATMENT_MODEL THEN G ELSE F]),
       Dict([k \in {"alpha"} |-> F]) >>

\* n_variants as passed: the ints 0..MaxVariants, and the float 2.0
NVariantsValues == {IntValue(n) : n \in 0..MaxVariants} \cup {FloatValue(2)}

\* every combination of scalar, per-kind dict and missing arguments
WideArgs ==
    [cls : Variants,
     nuisance_model_factory :
         {F, Ref("outcome_dict"), Ref("propensity_outcome_dict")},
     is_classification : BOOLEAN,
     n_variants : NVariantsValues,
     treatment_model_factory : {None, G, Ref("treatment_dict")},
     propensity_model_factory : {None, F},
     nuisance_model_params :
         {None, Ref("params"), Ref("outcome_dict"),
          Ref("propensity_outcome_dict")},
     treatment_model_params : {None, Ref("treatment_dict")},
     propensity_model_params : {None, Ref("params")},
     feature_set : {None, G, Ref("all_kinds_dict")},
     n_folds : {0, 2},
     random_state : {None}]

\* well-formed arguments: scalar factories, no params; the variant,
\* n_variants, is_classification and the feature set vary
RuntimeArgs ==
    [cls : Variants \ {"MisdeclaredLearner"},
     nuisance_model_factory : {F},
     is_classification : BOOLEAN,
     n_variants : {IntValue(n) : n \in 2..MaxVariants},
     treatment_model_factory : {G},
     propensity_model_factory : {F},
     nuisance_model_params : {None},
     treatment_model_params : {None},
     propensity_model_params : {None},
     feature_set : {None, Ref("all_kinds_dict")},
     n_folds : {2},
     random_state : {None}]

\* the model kinds and ordinals the operations are called with
Kinds == {PROPENSITY_MODEL, OUTCOME_MODEL, TREATMENT_MODEL}
Ords == (-1)..MaxVariants

\* the ordinal every declared kind has
FirstOrd == {0}

\* the treatment and outcome vectors the checks are called with
Vectors == UNION {[1..n -> (-1)..MaxVariants] : n \in 0..MaxLen}

Init ==
    /\ heap = CallerHeap
    /\ estimators = <<>>
    /\ pc = "start"
    /\ args = NoArgs
    /\ err = NoError
    /\ ml = NoML
    /\ call = NoCall
    /\ ret = NoRet
    /\ nops = 0
    /\ trace = <<>>

ConstructFrom(arguments) ==
    /\ pc = "start"
    /\ nops = 0
    /\ \E a \in arguments :
        LET r == MetaLearnerInit(heap, estimators, a)
        IN  /\ args' = a
            /\ err' = r.err
            /\ pc' = IF r.err = NoError THEN "constructed" ELSE "failed"
            /\ ml' = r.ml
            /\ heap' = r.heap
            /\ estimators' = r.estimators
            /\ call' = [op |-> "__init__"]
            /\ ret' = IF r.err = NoError THEN Returned("self")
                      ELSE Raised(r.err.type, <<r.err.site>>)
    /\ UNCHANGED <<nops, trace>>

FitNuisanceWithin(bound, ords) ==
    /\ pc = "constructed"
    /\ nops < bound
    /\ \E model_kind \in Kinds, model_ord \in ords :
        LET r == fit_nuisance(ml, heap, estimators, model_kind, model_ord)
        IN  /\ call' = [op |-> "fit_nuisance", model_kind |-> model_kind,
                        model_ord |-> model_ord]
            /\ ret' = r.ret
            /\ estimators' = r.estimators
    /\ nops' = nops + 1
    /\ UNCHANGED <<heap, pc, args, err, ml, trace>>

FitTreatmentWithin(bound, ords) ==
    /\ pc = "constructed"
    /\ nops < bound
    /\ \E model_kind \in Kinds, model_ord \in ords :
        LET r == fit_treatment(ml, heap, estimators, model_kind, model_ord)
        IN  /\ call' = [op |-> "fit_treatment", model_kind |-> model_kind,
                        model_ord |-> model_ord]
            /\ ret' = r.ret
            /\ estimators' = r.estimators
    /\ nops' = nops + 1
    /\ UNCHANGED <<heap, pc, args, err, ml, trace>>

PredictNuisanceWithin(bound, ords, oos) ==
    /\ pc = "constructed"
    /\ nops < bound
    /\ \E model_kind \in Kinds, model_ord \in ords, is_oos \in oos :
        LET r == predict_nuisance(ml, heap, estimators, model_kind,
                                  model_ord, is_oos)
        IN  /\ call' = [op |-> "predict_nuisance", model_kind |-> model_kind,
                        model_ord |-> model_ord, is_oos |-> is_oos]
            /\ ret' = r.ret
            /\ estimators' = r.estimators
    /\ nops' = nops + 1
    /\ UNCHANGED <<heap, pc, args, err, ml, trace>>

PredictTreatmentWithin(bound, ords, oos) ==
    /\ pc = "constructed"
    /\ nops < bound
    /\ \E model_kind \in Kinds, model_ord \in ords, is_oos \in oos :
        LET r == predict_treatment(ml, heap, estimators, model_kind,
                                   model_ord, is_oos)
        IN  /\ call' = [op |-> "predict_treatment", model_kind |-> model_kind,
                        model_ord |-> model_ord, is_oos |-> is_oos]
            /\ ret' = r.ret
            /\ estimators' = r.estimators
    /\ nops' = nops + 1
    /\ UNCHANGED <<heap, pc, args, err, ml, trace>>

(* Spec: any combination of constructor arguments, then operations on the   *)
(* first estimator of a kind                                                *)

Construct == ConstructFrom(WideArgs)
FitNuisance == FitNuisanceWithin(WideOps, FirstOrd)
FitTreatment == FitTreatmentWithin(WideOps, FirstOrd)
PredictNuisance == PredictNuisanceWithin(WideOps, FirstOrd, {FALSE})
PredictTreatment == PredictTreatmentWithin(WideOps, FirstOrd, {FALSE})

Next ==
    \/ Construct
    \/ FitNuisance
    \/ FitTreatment
    \/ PredictNuisance
    \/ PredictTreatment

Spec == Init /\ [][Next]_vars

(* SpecRuntime: well-formed arguments, then longer runs of operations *)

ConstructWellFormed == ConstructFrom(RuntimeArgs)
FitNuisanceRun == FitNuisanceWithin(MaxOps, Ords)
FitTreatmentRun == FitTreatmentWithin(MaxOps, Ords)
PredictNuisanceRun == PredictNuisanceWithin(MaxOps, Ords, BOOLEAN)
PredictTreatmentRun == PredictTreatmentWithin(MaxOps, Ords, BOOLEAN)

NuisanceTensorsRun ==
    /\ pc = "constructed"
    /\ nops < MaxOps
    /\ \E n_obs \in {1, MaxLen} :
        LET r == _nuisance_tensors(ml, estimators, n_obs)
        IN  /\ call' = [op |-> "_nuisance_tensors", n_obs |-> n_obs]
            /\ ret' = r.ret
            /\ estimators' = r.estimators
    /\ nops' = nops + 1
    /\ UNCHANGED <<heap, pc, args, err, ml, trace>>

NextRuntime ==
    \/ ConstructWellFormed
    \/ FitNuisanceRun
    \/ FitTreatmentRun
    \/ PredictNuisanceRun
    \/ PredictTreatmentRun
    \/ NuisanceTensorsRun

SpecRuntime == Init /\ [][NextRuntime]_vars

(* SpecValidate: the checks a variant's fit calls on its inputs.  A check   *)
(* reads n_variants, is_classification and the class only and assigns      *)
(* nothing, so each is explored as the first call on a new instance.       *)

\* scalar factories; the variant, n_variants, is_classification, the
\* presence of the propensity factory and n_folds vary
ValidateArgs ==
    [cls : Variants,
     nuisance_model_factory : {F},
     is_classification : BOOLEAN,
     n_variants : NVariantsValues,
     treatment_model_factory : {G},
     propensity_model_factory : {None, F},
     nuisance_model_params : {None},
     treatment_model_params : {None},
     propensity_model_params : {None},
     feature_set : {None},
     n_folds : {0, 2},
     random_state : {None}]

ConstructForChecks == ConstructFrom(ValidateArgs)

\* the outcome of a check, which returns None or raises
Checked(error) ==
    IF error = NoError THEN Returned("None")
    ELSE Raised(error.type, <<error.site>>)

\* the class method, called on any variant before anything is constructed
CheckNVariants ==
    /\ pc = "start"
    /\ nops = 0
    /\ \E cls \in Variants, n_variants \in NVariantsValues :
        /\ call' = [op |-> "_check_n_variants", cls |-> cls,
                    n_variants |-> n_variants]
        /\ ret' = Checked(_check_n_variants(cls, n_variants))
    /\ nops' = nops + 1
    /\ UNCHANGED <<heap, estimators, pc, args, err, ml, trace>>

CheckTreatment ==
    /\ pc = "constructed"
    /\ nops = 0
    /\ \E w \in Vectors :
        /\ call' = [op |-> "_check_treatment", w |-> w]
        /\ ret' = Checked(_check_treatment(ml, w))
    /\ nops' = nops + 1
    /\ UNCHANGED <<heap, estimators, pc, args, err, ml, trace>>

CheckOutcome ==
    /\ pc = "constructed"
    /\ nops = 0
    /\ \E y \in Vectors :
        /\ call' = [op |-> "_check_outcome", y |-> y]
        /\ ret' = Checked(_check_outcome(ml, y))
    /\ nops' = nops + 1
    /\ UNCHANGED <<heap, estimators, pc, args, err, ml, trace>>

NextValidate ==
    \/ ConstructForChecks
    \/ CheckNVariants
    \/ CheckTreatment
    \/ CheckOutcome

SpecValidate == Init /\ [][NextValidate]_vars

----------------------------------------------------------------------------
(* Claims about construction (Spec) *)

\* the argument is a dict holding the key "propensity_model"
PassesPropensityKey(ref) ==
    /\ CallerHeap[ref].isdict
    /\ PROPENSITY_MODEL \in DOMAIN CallerHeap[ref].items

\* the variant declares the propensity kind among its nuisance kinds
DeclaresPropensity(cls) ==
    PROPENSITY_MODEL \in DOMAIN nuisance_model_specifications(cls)

\* __init__ raised an error of the given type and left nothing behind
FailedWith(type) ==
    /\ pc = "failed"
    /\ err.type = type
    /\ ret.kind = "raise"
    /\ ret.type = type
    /\ ml = NoML
    /\ estimators = <<>>
    /\ heap = CallerHeap

\* C1: for a variant that declares the propensity kind, __init__ raises
\* ValueError and produces no instance whenever nuisance_model_factory is a
\* dict with the key "propensity_model", or nuisance_model_params is such a
\* dict, or propensity_model_factory is None, whatever the other arguments.
C1_PropensityChannel ==
    (/\ pc # "start"
     /\ DeclaresPropensity(args.cls)
     /\ \/ PassesPropensityKey(args.nuisance_model_factory)
        \/ PassesPropensityKey(args.nuisance_model_params)
        \/ args.propensity_model_factory = None)
    => FailedWith("ValueError")

\* the propensity factory was missing while n_variants = 3 on a binary
\* variant and n_folds = 0: the error is still the ValueError of the
\* propensity check
C1_Witness ==
    /\ pc = "failed"
    /\ args.cls = "PropensityLearner"
    /\ args.propensity_model_factory = None
    /\ args.nuisance_model_factory = F
    /\ args.nuisance_model_params = None
    /\ args.n_variants = IntValue(3)
    /\ args.n_folds = 0
    /\ err = Error("ValueError", "propensity_model_factory")

\* C7 (invariant I1): on every constructed instance, whatever combination of
\* scalars and per-kind dicts was passed and after any fit_* or predict_*
\* call, nuisance_model_factory and nuisance_model_params are dicts whose
\* keys are exactly the declared nuisance kinds, treatment_model_factory and
\* treatment_model_params are dicts whose keys are exactly the declared
\* treatment kinds, and feature_set is None when none was passed and else a
\* dict whose keys are exactly the union of both.
C7_KeySets ==
    pc = "constructed" =>
        LET nuisance == DOMAIN nuisance_model_specifications(ml.cls)
            treatment == DOMAIN treatment_model_specifications(ml.cls)
            over(ref, names) ==
                /\ ref \in 1..Len(heap)
                /\ heap[ref].isdict
                /\ DOMAIN heap[ref].items = names
        IN  /\ ml.cls = args.cls
            /\ over(ml.nuisance_model_factory, nuisance)
            /\ over(ml.nuisance_model_params, nuisance)
            /\ over(ml.treatment_model_factory, treatment)
            /\ over(ml.treatment_model_params, treatment)
            /\ IF args.feature_set = None
               THEN ml.feature_set = None
               ELSE over(ml.feature_set, nuisance \cup treatment)

\* an instance built from a per-kind factory dict, a per-kind params dict and
\* a feature-set dict with more keys than kinds, after a successful fit
C7_Witness ==
    /\ pc = "constructed"
    /\ args.cls = "BinaryLearner"
    /\ args.nuisance_model_factory = Ref("outcome_dict")
    /\ args.nuisance_model_params = Ref("outcome_dict")
    /\ args.treatment_model_params = Ref("treatment_dict")
    /\ args.feature_set = Ref("all_kinds_dict")
    /\ call.op = "fit_nuisance"
    /\ ret.kind = "return"
    /\ DOMAIN heap[ml.feature_set].items = {OUTCOME_MODEL}

----------------------------------------------------------------------------
(* Claims about the validation hooks (SpecValidate) *)

\* the arguments pass the four checks that precede _check_n_variants
PassesPropensityChecks ==
    /\ PROPENSITY_MODEL \notin DOMAIN treatment_model_specifications(args.cls)
    /\ ~PassesPropensityKey(args.nuisance_model_factory)
    /\ ~PassesPropensityKey(args.nuisance_model_params)
    /\ (DeclaresPropensity(args.cls) => args.propensity_model_factory # None)

\* what _check_n_variants must answer for a class and an n_variants
NVariantsVerdict(cls, n) ==
    IF ~n.isint \/ n.value < 2 THEN "ValueError"
    ELSE IF n.value > 2 /\ cls # "MultiLearner" THEN "NotImplementedError"
    ELSE "accepted"

\* C2: _check_n_variants rejects an n_variants that is not an int or is < 2
\* with ValueError for every variant, rejects n_variants > 2 with
\* NotImplementedError for a variant without multi-treatment support, and
\* accepts everything else (n_variants = 2 always).  __init__ applies it
\* after the propensity checks: when those pass, construction fails with
\* exactly that error; with multi-treatment support and an otherwise valid
\* configuration n_variants = 3 constructs an instance.
C2_NVariants ==
    /\ call.op = "_check_n_variants" =>
          LET verdict == NVariantsVerdict(call.cls, call.n_variants)
          IN  /\ pc = "start" /\ ml = NoML /\ heap = CallerHeap
              /\ IF verdict = "accepted"
                 THEN ret.kind = "return"
                 ELSE ret.kind = "raise" /\ ret.type = verdict
    /\ pc \in {"constructed", "failed"} =>
        LET n == args.n_variants
            supported == _supports_multi_treatment(args.cls)
        IN  /\ (~n.isint \/ n.value < 2) =>
                  /\ FailedWith("ValueError")
                  /\ PassesPropensityChecks =>
                        err = Error("ValueError", "n_variants")
            /\ (n.isint /\ n.value > 2 /\ ~supported) =>
                  /\ pc = "failed"
                  /\ IF PassesPropensityChecks
                     THEN /\ FailedWith("NotImplementedError")
                          /\ err.site = "n_variants"
                     ELSE FailedWith("ValueError")
            /\ (/\ n = IntValue(3) /\ supported /\ PassesPropensityChecks
                /\ args.n_folds > 0) =>
                  /\ pc = "constructed"
                  /\ err = NoError
                  /\ ml.n_variants = 3
            /\ n = IntValue(2) => err.site # "n_variants"
            /\ err.site = "n_variants" =>
                  err.type \in {"ValueError", "NotImplementedError"}

\* n_variants = 3 was refused, with NotImplementedError, by the construction
\* of a variant without multi-treatment support
C2_Witness ==
    /\ pc = "failed"
    /\ args.cls = "PropensityLearner"
    /\ args.n_variants = IntValue(3)
    /\ args.propensity_model_factory = F
    /\ err = Error("NotImplementedError", "n_variants")

\* the distinct values of a vector
Distinct(v) == {v[i] : i \in DOMAIN v}

\* C3: _check_treatment accepts w exactly when the set of its distinct
\* values is {0, ..., n_variants - 1}, and raises ValueError for every other
\* w: with n_variants = 2, [0,0,1,1] passes, [0,1,2] and [1,1,1] fail.  The
\* check changes nothing of the instance.
C3_Treatment ==
    /\ [](call.op = "_check_treatment" =>
            /\ IF Distinct(call.w) = 0..(ml.n_variants - 1)
               THEN ret.kind = "return"
               ELSE ret.kind = "raise" /\ ret.type = "ValueError"
            /\ (ml.n_variants = 2 /\ call.w = <<0, 0, 1, 1>>)
                  => ret.kind = "return"
            /\ (ml.n_variants = 2 /\ call.w \in {<<0, 1, 2>>, <<1, 1, 1>>})
                  => ret.kind = "raise")
    /\ [][call'.op = "_check_treatment" =>
            /\ ml' = ml /\ heap' = heap /\ estimators' = estimators
            /\ pc' = pc]_vars

\* [0,0,1,1] was accepted by an instance with n_variants = 2
C3_Witness ==
    /\ call.op = "_check_treatment"
    /\ ml.n_variants = 2
    /\ call.w = <<0, 0, 1, 1>>
    /\ ret.kind = "return"

\* C4 as stated: an outcome with more than two distinct values is rejected
\* unless the variant supports multi-class outcomes, a variant that supports
\* them rejects nothing, and an outcome with at most two distinct values is
\* never rejected.
C4_AsStated ==
    call.op = "_check_outcome" =>
        LET rejected == ret.kind = "raise"
        IN  /\ (Cardinality(Distinct(call.y)) > 2
                /\ ~_supports_multi_class(ml.cls)) => rejected
            /\ _supports_multi_class(ml.cls) => ~rejected
            /\ Cardinality(Distinct(call.y)) <= 2 => ~rejected

\* C4, amended: _check_outcome raises ValueError exactly when the instance
\* was constructed for classification (is_classification), the variant does
\* not support multi-class outcomes and y has more than two distinct values;
\* in every other case it returns.
C4_Outcome ==
    call.op = "_check_outcome" =>
        IF /\ ml.is_classification
           /\ ml.cls \in {"BinaryLearner", "PropensityLearner"}
           /\ Cardinality(Distinct(call.y)) > 2
        THEN ret.kind = "raise" /\ ret.type = "ValueError"
        ELSE ret.kind = "return"

\* a three-class outcome was rejected by a classification instance of a
\* variant without multi-class support
C4_Witness ==
    /\ call.op = "_check_outcome"
    /\ ml.cls = "BinaryLearner"
    /\ ml.is_classification
    /\ call.y = <<0, 1, 2>>
    /\ ret.kind = "raise"

----------------------------------------------------------------------------
(* Claims about the estimators and the runtime operations (SpecRuntime) *)

\* the places (mapping, kind, position) of the estimator lists of the instance
Places ==
    {<<"nuisance", k, i>> :
        k \in DOMAIN ml._nuisance_models,
        i \in 1..(MaxVariants + 1)}
    \cup {<<"treatment", k, i>> :
        k \in DOMAIN ml._treatment_models,
        i \in 1..(MaxVariants + 1)}

ModelsOf(m, mapping) ==
    IF mapping = "nuisance" THEN m._nuisance_models ELSE m._treatment_models

\* the places that hold an estimator
Allocated ==
    {p \in Places : p[3] <= Len(ModelsOf(ml, p[1])[p[2]])}

InstanceAt(p) == ModelsOf(ml, p[1])[p[2]][p[3]]

\* C8 (invariant I4): on a constructed instance the keys of the two
\* estimator mappings are the declared kinds, the list under kind k holds
\* cardinality_fn(self) instances, each an allocated estimator; the result
\* lists of _nuisance_tensors have the length of the allocated lists; and no
\* fit_*, predict_* or _nuisance_tensors call changes the lists (their
\* lengths, or which instances they hold) or allocates an estimator.
C8_Cardinality ==
    /\ [](pc = "constructed" =>
            LET nuisance == nuisance_model_specifications(ml.cls)
                treatment == treatment_model_specifications(ml.cls)
            IN  /\ DOMAIN ml._nuisance_models = DOMAIN nuisance
                /\ DOMAIN ml._treatment_models = DOMAIN treatment
                /\ \A k \in DOMAIN nuisance :
                      Len(ml._nuisance_models[k])
                          = CardinalityOf(nuisance[k], ml)
                /\ \A k \in DOMAIN treatment :
                      Len(ml._treatment_models[k])
                          = CardinalityOf(treatment[k], ml)
                /\ ml.n_variants = args.n_variants.value
                /\ \A p \in Allocated : InstanceAt(p) \in 1..Len(estimators)
                /\ call.op = "_nuisance_tensors" =>
                      /\ ret.kind = "return"
                      /\ DOMAIN ret.value = DOMAIN nuisance
                      /\ \A k \in DOMAIN nuisance :
                            Len(ret.value[k]) = Len(ml._nuisance_models[k]))
    /\ [][pc = "constructed" =>
            /\ pc' = "constructed"
            /\ ml'._nuisance_models = ml._nuisance_models
            /\ ml'._treatment_models = ml._treatment_models
            /\ ml'.n_variants = ml.n_variants
            /\ Len(estimators') = Len(estimators)]_vars

\* the multi-treatment variant with three variants holds three outcome
\* models and two treatment models, still so after two calls, the last one
\* of _nuisance_tensors
C8_Witness ==
    /\ pc = "constructed"
    /\ ml.cls = "MultiLearner"
    /\ ml.n_variants = 3
    /\ Len(ml._nuisance_models[OUTCOME_MODEL]) = 3
    /\ Len(ml._treatment_models[TREATMENT_MODEL]) = 2
    /\ nops = 2
    /\ call.op = "_nuisance_tensors"
    /\ Len(ret.value[OUTCOME_MODEL]) = 3
    /\ \E i \in 1..Len(estimators) : estimators[i].fits = 1

\* the place model_ord names in a list of length n, as Python indexes
PositionOf(model_ord, n) ==
    IF model_ord >= 0 THEN model_ord + 1 ELSE n + model_ord + 1

\* the estimators after fit_nuisance or fit_treatment on the given one
FitsAfter(es, mapping, model_kind, model_ord) ==
    IF mapping = "nuisance"
    THEN fit_nuisance(ml, heap, es, model_kind, model_ord).estimators
    ELSE fit_treatment(ml, heap, es, model_kind, model_ord).estimators

\* C10: a successful fit_nuisance(kind, ord) (fit_treatment) calls fit on the
\* estimator at position ord of the nuisance (treatment) list of kind and on
\* no other, changes nothing else of the instance and returns the instance;
\* a fit that raises and every predict_* call change nothing.  Distinct
\* places never hold the same instance, two fits commute, and an estimator
\* is untrained until a fit targets it.
C10_Frame ==
    /\ [](pc = "constructed" =>
            /\ \A p, q \in Allocated :
                  InstanceAt(p) = InstanceAt(q) => p = q
            /\ call.op = "__init__" =>
                  \A i \in 1..Len(estimators) : estimators[i].fits = 0
            /\ \A p, q \in Allocated :
                  FitsAfter(FitsAfter(estimators, p[1], p[2], p[3] - 1),
                            q[1], q[2], q[3] - 1)
                  = FitsAfter(FitsAfter(estimators, q[1], q[2], q[3] - 1),
                              p[1], p[2], p[3] - 1)
                  \/ p = q)
    /\ [][pc = "constructed" =>
            /\ ml' = ml
            /\ heap' = heap
            /\ IF call'.op \in {"fit_nuisance", "fit_treatment"}
                  /\ ret'.kind = "return"
               THEN LET list == ModelsOf(
                                  ml,
                                  IF call'.op = "fit_nuisance"
                                  THEN "nuisance" ELSE "treatment"
                                )[call'.model_kind]
                        target == list[PositionOf(call'.model_ord, Len(list))]
                    IN  /\ ret'.value = "self"
                        /\ estimators'[target].fits
                              = estimators[target].fits + 1
                        /\ \A i \in 1..Len(estimators) :
                              i # target => estimators'[i] = estimators[i]
               ELSE estimators' = estimators]_vars

\* the second treatment model of a three-variant instance was fitted after
\* its first outcome model: each has one fit, every other estimator none
C10_Witness ==
    /\ pc = "constructed"
    /\ ml.cls = "MultiLearner"
    /\ ml.n_variants = 3
    /\ nops = 2
    /\ call = [op |-> "fit_treatment", model_kind |-> TREATMENT_MODEL,
               model_ord |-> 1]
    /\ ret = Returned("self")
    /\ estimators[ml._nuisance_models[OUTCOME_MODEL][1]].fits = 1
    /\ estimators[ml._treatment_models[TREATMENT_MODEL][2]].fits = 1
    /\ \A i \in 1..Len(estimators) :
          estimators[i].fits = 1 =>
              i \in {ml._nuisance_models[OUTCOME_MODEL][1],
                     ml._treatment_models[TREATMENT_MODEL][2]}

----------------------------------------------------------------------------
(* utils.py: the variant factory *)

\* the match statement folded to upper case: "dr" and "s" are accepted
MetalearnerFactoryIgnoringCase(metalearner_prefix) ==
    CASE metalearner_prefix \in {"T", "t"} -> Returned("TLearner")
      [] metalearner_prefix \in {"S", "s"} -> Returned("SLearner")
      [] metalearner_prefix \in {"X", "x"} -> Returned("XLearner")
      [] metalearner_prefix \in {"R", "r"} -> Returned("RLearner")
      [] metalearner_prefix \in {"DR", "dr"} -> Returned("DRLearner")
      [] OTHER -> Raised("ValueError",
                         <<"No MetaLearner implementation found for prefix ",
                           metalearner_prefix, ".">>)

metalearner_factory(metalearner_prefix) ==
    CASE metalearner_prefix = "T" -> Returned("TLearner")
      [] metalearner_prefix = "S" -> Returned("SLearner")
      [] metalearner_prefix = "X" -> Returned("XLearner")
      [] metalearner_prefix = "R" -> Returned("RLearner")
      [] metalearner_prefix = "DR" -> Returned("DRLearner")
      [] OTHER -> Raised("ValueError",
                         <<"No MetaLearner implementation found for prefix ",
                           metalearner_prefix, ".">>)

\* the prefixes the factory is called with: the five codes, and near misses
Prefixes ==
    {"S", "T", "X", "R", "DR", "s", "t", "dr", "D", "RD", "", "SLearner"}

InitFactory ==
    /\ heap = BaseHeap
    /\ estimators = <<>>
    /\ pc = "start"
    /\ args = NoArgs
    /\ err = NoError
    /\ ml = NoML
    /\ call = NoCall
    /\ ret = NoRet
    /\ nops = 0
    /\ trace = <<>>

CallMetalearnerFactory ==
    /\ nops < FactoryCalls
    /\ \E metalearner_prefix \in Prefixes :
        /\ call' = [op |-> "metalearner_factory",
                    metalearner_prefix |-> metalearner_prefix]
        /\ ret' = metalearner_factory(metalearner_prefix)
        /\ trace' = Append(trace, [metalearner_prefix |-> metalearner_prefix,
                                   ret |-> ret'])
    /\ nops' = nops + 1
    /\ UNCHANGED <<heap, estimators, pc, args, err, ml>>

NextFactory == CallMetalearnerFactory

SpecFactory == InitFactory /\ [][NextFactory]_vars

----------------------------------------------------------------------------
(* Claim about the variant factory (SpecFactory) *)

\* the class the documentation of metalearner_factory gives for each code
DocumentedClass(code) ==
    CASE code = "S" -> "SLearner"
      [] code = "T" -> "TLearner"
      [] code = "X" -> "XLearner"
      [] code = "R" -> "RLearner"
      [] code = "DR" -> "DRLearner"

\* C9: metalearner_factory resolves exactly the codes S, T, X, R, DR, case
\* sensitively, to five pairwise distinct classes; the same code resolves to
\* the same class on every call; every other code raises ValueError with a
\* message naming the code; the call changes no state.
C9_Factory ==
    /\ \A i \in 1..Len(trace) :
        LET code == trace[i].metalearner_prefix
            r == trace[i].ret
        IN  IF code \in {"S", "T", "X", "R", "DR"}
            THEN r.kind = "return" /\ r.value = DocumentedClass(code)
            ELSE /\ r.kind = "raise"
                 /\ r.type = "ValueError"
                 /\ \E k \in 1..Len(r.message) : r.message[k] = code
    /\ \A i, j \in 1..Len(trace) :
        /\ trace[i].metalearner_prefix = trace[j].metalearner_prefix
              => trace[i].ret = trace[j].ret
        /\ (/\ trace[i].ret.kind = "return"
            /\ trace[j].ret.kind = "return"
            /\ trace[i].metalearner_prefix # trace[j].metalearner_prefix)
              => trace[i].ret.value # trace[j].ret.value
    /\ (call.op = "metalearner_factory" =>
          /\ heap = BaseHeap /\ estimators = <<>> /\ pc = "start"
          /\ args = NoArgs /\ err = NoError /\ ml = NoML)

\* "DR" was resolved, and then the lower-case "dr" was refused
C9_Witness ==
    /\ Len(trace) = 2
    /\ trace[1].metalearner_prefix = "DR"
    /\ trace[1].ret.kind = "return"
    /\ trace[2].metalearner_prefix = "dr"
    /\ trace[2].ret.kind = "raise"

====
